---- MODULE Spec2Model ----
(***************************************************************************)
(* Model of xchain-client-sdk: transfer (transfer.rs) and Session          *)
(* (session.rs).  A transfer pre-executes, builds the compliance-check     *)
(* (fee) transaction, builds the real transaction on top of the fee        *)
(* transaction's change, has it endorsed, appends the endorser signature,  *)
(* recomputes the txid and posts the transaction.                          *)
(*                                                                         *)
(* i64 values are modelled with IntBits bits (two's complement) instead of *)
(* 64; BigInt values are unbounded integers.  Decimal strings are          *)
(* sequences of one-character strings, byte vectors are sequences of       *)
(* 0..255, addresses are strings ("" is the empty address).                *)
(***************************************************************************)
EXTENDS Integers, Sequences, FiniteSets

\* ------------------------------------------------------------------------
\* Bounds
\* ------------------------------------------------------------------------
IntBits == 12
MaxResponses == 1
MaxFnOutputs == 2

Modulus == 2 ^ IntBits
MaxInt == (2 ^ (IntBits - 1)) - 1
MinInt == 0 - (2 ^ (IntBits - 1))

\* ------------------------------------------------------------------------
\* Results
\* ------------------------------------------------------------------------
Ok(v) == [kind |-> "Ok", val |-> v]
Err(e) == [kind |-> "Err", err |-> e]
Panic(m) == [kind |-> "Panic", msg |-> m]
IsOk(r) == r.kind = "Ok"

\* ------------------------------------------------------------------------
\* Decimal strings, i64, BigInt, bytes
\* ------------------------------------------------------------------------
Digits == <<"0", "1", "2", "3", "4", "5", "6", "7", "8", "9">>
IsDigit(c) == \E i \in 1..10 : Digits[i] = c
DigitVal(c) == (CHOOSE i \in 1..10 : Digits[i] = c) - 1
AllDigits(s) == s # <<>> /\ \A i \in 1..Len(s) : IsDigit(s[i])

RECURSIVE ParseNat(_)
ParseNat(s) ==
    IF s = <<>> THEN 0
    ELSE 10 * ParseNat(SubSeq(s, 1, Len(s) - 1)) + DigitVal(s[Len(s)])

RECURSIVE NatToStr(_)
NatToStr(n) ==
    IF n < 10 THEN <<Digits[n + 1]>>
    ELSE NatToStr(n \div 10) \o <<Digits[(n % 10) + 1]>>

\* i64::to_string / u64::to_string / BigInt::to_str_radix(10)
ToStr(n) == IF n < 0 THEN <<"-">> \o NatToStr(0 - n) ELSE NatToStr(n)

\* consts::str_as_i64: a decimal string with an optional sign, in range
StrAsI64(s) ==
    LET body == IF s # <<>> /\ s[1] \in {"-", "+"} THEN Tail(s) ELSE s
        mag == ParseNat(body)
        v == IF s # <<>> /\ s[1] = "-" THEN 0 - mag ELSE mag
    IN IF AllDigits(body) /\ v >= MinInt /\ v <= MaxInt
       THEN Ok(v) ELSE Err("ParseError")

\* consts::str_as_bigint: a decimal string of a non-negative integer
StrAsBigint(s) ==
    IF AllDigits(s) THEN Ok(ParseNat(s)) ELSE Err("ParseError")

\* BigInt::to_bytes_be().1: the big-endian magnitude, [0] for zero
RECURSIVE MagBytes(_)
MagBytes(n) ==
    IF n = 0 THEN <<>> ELSE MagBytes(n \div 256) \o <<n % 256>>
ToBytesBE(n) ==
    LET m == IF n < 0 THEN 0 - n ELSE n
    IN IF m = 0 THEN <<0>> ELSE MagBytes(m)

\* BigInt::from_bytes_be(Sign::Plus, bytes)
RECURSIVE FromBytesBE(_)
FromBytesBE(b) ==
    IF b = <<>> THEN 0
    ELSE 256 * FromBytesBE(SubSeq(b, 1, Len(b) - 1)) + b[Len(b)]

\* two's-complement wrap of an i64 result
Wrap(x) == ((x - MinInt) % Modulus) + MinInt
InRange(x) == x >= MinInt /\ x <= MaxInt

\* hex::encode
HexEncode(b) == [hex |-> b]

\* ------------------------------------------------------------------------
\* Protobuf values
\* ------------------------------------------------------------------------
Null == [kind |-> "None"]

\* xchain::TxOutput::new()
TxOutputNew == [to_addr |-> "", amount |-> <<>>]

\* xchain::Transaction::new()
TransactionNew ==
    [desc |-> "", version |-> 0, coinbase |-> FALSE, timestamp |-> 0,
     tx_inputs |-> <<>>, tx_outputs |-> <<>>, initiator |-> "", nonce |-> 0,
     auth_require |-> <<>>, tx_inputs_ext |-> <<>>, tx_outputs_ext |-> <<>>,
     contract_requests |-> <<>>, initiator_signs |-> <<>>,
     auth_require_signs |-> <<>>, txid |-> Null]

\* consts::TXVersion
TXVersion == 1

\* encoder::make_tx_digest_hash: hash of the transaction without its
\* signature lists and without its txid
MakeTxDigestHash(tx) ==
    [hash |-> "digest",
     of |-> [desc |-> tx.desc, version |-> tx.version,
             coinbase |-> tx.coinbase, timestamp |-> tx.timestamp,
             tx_inputs |-> tx.tx_inputs, tx_outputs |-> tx.tx_outputs,
             initiator |-> tx.initiator, nonce |-> tx.nonce,
             auth_require |-> tx.auth_require,
             tx_inputs_ext |-> tx.tx_inputs_ext,
             tx_outputs_ext |-> tx.tx_outputs_ext,
             contract_requests |-> tx.contract_requests]]

\* encoder::make_transaction_id: hash of the transaction with both
\* signature lists, without its txid
MakeTransactionId(tx) ==
    [hash |-> "txid",
     of |-> [desc |-> tx.desc, version |-> tx.version,
             coinbase |-> tx.coinbase, timestamp |-> tx.timestamp,
             tx_inputs |-> tx.tx_inputs, tx_outputs |-> tx.tx_outputs,
             initiator |-> tx.initiator, nonce |-> tx.nonce,
             auth_require |-> tx.auth_require,
             tx_inputs_ext |-> tx.tx_inputs_ext,
             tx_outputs_ext |-> tx.tx_outputs_ext,
             contract_requests |-> tx.contract_requests,
             initiator_signs |-> tx.initiator_signs,
             auth_require_signs |-> tx.auth_require_signs]]

\* wallet::Account::sign and wallet::Account::public_key
AccountSign(account, digest) == [signer |-> account.address, over |-> digest]
AccountPublicKey(account) == [pubkey_of |-> account.address]

\* xchain::SignatureInfo with set_PublicKey and set_Sign
SignatureInfo(pk, sig) == [PublicKey |-> pk, Sign |-> sig]

\* ------------------------------------------------------------------------
\* Session
\* ------------------------------------------------------------------------

\* check_resp_code rejecting status 400 as well
CheckRespCode_Ge(resp) ==
    IF \E i \in 1..Len(resp) : resp[i].status >= 400
    THEN Err("ContractCodeGT400") ELSE Ok(TRUE)

\* Session::check_resp_code
CheckRespCode(resp) ==
    IF \E i \in 1..Len(resp) : resp[i].status > 400
    THEN Err("ContractCodeGT400") ELSE Ok(TRUE)

\* generate_tx_input producing a change output for an exact total too
GenerateTxInput_Ge(account, utxo_output, total_need) ==
    LET list == utxo_output.utxoList
        tx_inputs == [i \in 1..Len(list) |->
                        [ref_txid |-> list[i].refTxid,
                         ref_offset |-> list[i].refOffset,
                         from_addr |-> list[i].toAddr,
                         amount |-> list[i].amount]]
        utxo_total == StrAsBigint(utxo_output.totalSelected)
    IN IF ~IsOk(utxo_total) THEN utxo_total
       ELSE Ok([tx_inputs |-> tx_inputs,
                to |-> IF utxo_total.val >= total_need
                       THEN [to_addr |-> account.address,
                             amount |-> ToBytesBE(utxo_total.val - total_need)]
                       ELSE TxOutputNew])

\* Session::generate_tx_input
GenerateTxInput(account, utxo_output, total_need) ==
    LET list == utxo_output.utxoList
        tx_inputs == [i \in 1..Len(list) |->
                        [ref_txid |-> list[i].refTxid,
                         ref_offset |-> list[i].refOffset,
                         from_addr |-> list[i].toAddr,
                         amount |-> list[i].amount]]
        utxo_total == StrAsBigint(utxo_output.totalSelected)
    IN IF ~IsOk(utxo_total) THEN utxo_total
       ELSE Ok([tx_inputs |-> tx_inputs,
                to |-> IF utxo_total.val > total_need
                       THEN [to_addr |-> account.address,
                             amount |-> ToBytesBE(utxo_total.val - total_need)]
                       ELSE TxOutputNew])

\* generate_tx_output pushing the fee output before the destination output
GenerateTxOutput_FeeFirst(to, amount, fee) ==
    LET am == StrAsBigint(amount)
        fm == StrAsBigint(fee)
        has_to == to # ""
        has_fee == fee # <<>> /\ fee # <<"0">>
        t1 == IF has_to THEN <<[to_addr |-> to, amount |-> ToBytesBE(am.val)]>>
              ELSE <<>>
    IN IF has_to /\ ~IsOk(am) THEN am
       ELSE IF has_fee /\ ~IsOk(fm) THEN fm
       ELSE IF has_fee
            THEN Ok(<<[to_addr |-> "$", amount |-> ToBytesBE(fm.val)]>> \o t1)
            ELSE Ok(t1)

\* Session::generate_tx_output
GenerateTxOutput(to, amount, fee) ==
    LET am == StrAsBigint(amount)
        fm == StrAsBigint(fee)
        has_to == to # ""
        has_fee == fee # <<>> /\ fee # <<"0">>
        t1 == IF has_to THEN <<[to_addr |-> to, amount |-> ToBytesBE(am.val)]>>
              ELSE <<>>
    IN IF has_to /\ ~IsOk(am) THEN am
       ELSE IF has_fee /\ ~IsOk(fm) THEN fm
       ELSE IF has_fee
            THEN Ok(t1 \o <<[to_addr |-> "$", amount |-> ToBytesBE(fm.val)]>>)
            ELSE Ok(t1)

\* the callers' "if !tx_output.to_addr.is_empty() { tx_outputs.push(..) }"
PushChange(tx_outputs, tx_output) ==
    IF tx_output.to_addr # "" THEN Append(tx_outputs, tx_output)
    ELSE tx_outputs

\* Session::gen_compliance_check_tx
\* fail_at names the external call (get_nonce, sign) that fails, if any
GenComplianceCheckTx(account, msg, cfg, resp, fail_at) ==
    LET total_need == Wrap(cfg.fee)
        sel == GenerateTxInput(account, resp.utxoOutput, total_need)
        outs == GenerateTxOutput(cfg.fee_addr, ToStr(cfg.fee), <<"0">>)
        tx0 == [TransactionNew EXCEPT
                  !.desc = "compliance check tx",
                  !.version = TXVersion,
                  !.coinbase = FALSE,
                  !.timestamp = 1,
                  !.tx_inputs = sel.val.tx_inputs,
                  !.tx_outputs = PushChange(outs.val, sel.val.to),
                  !.initiator = msg.initiator,
                  !.nonce = 1]
        digest_hash == MakeTxDigestHash(tx0)
        signature_info == SignatureInfo(AccountPublicKey(account),
                                        AccountSign(account, digest_hash))
        tx1 == [tx0 EXCEPT !.initiator_signs = <<signature_info>>]
        tx2 == [tx1 EXCEPT !.txid = MakeTransactionId(tx1)]
    IN IF ~IsOk(sel) THEN sel
       ELSE IF ~IsOk(outs) THEN outs
       ELSE IF fail_at = "cc_nonce" THEN Err("NonceError")
       ELSE IF fail_at = "cc_sign" THEN Err("SignError")
       ELSE Ok([tx |-> tx2, signed_over |-> tx0])

\* the scan counting only the outputs it keeps
RECURSIVE ScanOutputs_CountKept(_, _, _, _, _)
ScanOutputs_CountKept(cctx, initiator, k, index, acc) ==
    IF k > Len(cctx.tx_outputs) THEN acc
    ELSE LET tx_output == cctx.tx_outputs[k]
             hit == tx_output.to_addr = initiator
             t == [amount |-> tx_output.amount,
                   toAddr |-> tx_output.to_addr,
                   refTxid |-> cctx.txid,
                   refOffset |-> index]
         IN ScanOutputs_CountKept(cctx, initiator, k + 1,
               IF hit THEN index + 1 ELSE index,
               IF hit
               THEN [utxo_list |-> Append(acc.utxo_list, t),
                     total_selected |->
                        acc.total_selected + FromBytesBE(tx_output.amount)]
               ELSE acc)

\* Session::gen_real_tx, the scan of the fee transaction's outputs:
\* k is the position of the iterator, index the local counter
RECURSIVE ScanOutputs(_, _, _, _, _)
ScanOutputs(cctx, initiator, k, index, acc) ==
    IF k > Len(cctx.tx_outputs) THEN acc
    ELSE LET tx_output == cctx.tx_outputs[k]
             hit == tx_output.to_addr = initiator
             t == [amount |-> tx_output.amount,
                   toAddr |-> tx_output.to_addr,
                   refTxid |-> cctx.txid,
                   refOffset |-> index]
         IN ScanOutputs(cctx, initiator, k + 1, index + 1,
               IF hit
               THEN [utxo_list |-> Append(acc.utxo_list, t),
                     total_selected |->
                        acc.total_selected + FromBytesBE(tx_output.amount)]
               ELSE acc)

\* Session::gen_real_tx, the synthetic UtxoOutput
SyntheticPool(cctx, initiator) ==
    LET r == ScanOutputs(cctx, initiator, 1, 0,
                         [utxo_list |-> <<>>, total_selected |-> 0])
    IN [utxoList |-> r.utxo_list, totalSelected |-> ToStr(r.total_selected)]

\* the signature attached to the auth-required list for every account
AttachSigns_Always(tx, signature_info, account) ==
    [tx EXCEPT !.initiator_signs = <<signature_info>>,
               !.auth_require_signs = <<signature_info>>]

\* Session::gen_real_tx, the signature lists set after signing
AttachSigns(tx, signature_info, account) ==
    LET signature_infos == <<signature_info>>
        t1 == [tx EXCEPT !.initiator_signs = signature_infos]
    IN IF account.contract_name # ""
       THEN [t1 EXCEPT !.auth_require_signs = signature_infos]
       ELSE t1

\* total_need without the fee
TotalNeed_NoFee(amount, fee) == amount

\* Session::gen_real_tx, total_need = amount + fee
TotalNeed(amount, fee) == amount + fee

\* Session::gen_real_tx
GenRealTx(account, msg, resp, cctx, fail_at) ==
    LET outs == GenerateTxOutput(msg.to, msg.amount, msg.fee)
        utxo_output == SyntheticPool(cctx, msg.initiator)
        am == StrAsBigint(msg.amount)
        fm == StrAsBigint(msg.fee)
        total_need == TotalNeed(am.val, fm.val)
        sel == GenerateTxInput(account, utxo_output, total_need)
        tx0 == [TransactionNew EXCEPT
                  !.desc = "",
                  !.version = TXVersion,
                  !.coinbase = FALSE,
                  !.timestamp = 2,
                  !.tx_inputs = sel.val.tx_inputs,
                  !.tx_outputs = PushChange(outs.val, sel.val.to),
                  !.initiator = msg.initiator,
                  !.nonce = 2,
                  !.auth_require = msg.auth_require,
                  !.tx_inputs_ext = resp.response.inputs,
                  !.tx_outputs_ext = resp.response.outputs,
                  !.contract_requests = resp.response.requests]
        digest_hash == MakeTxDigestHash(tx0)
        signature_info == SignatureInfo(AccountPublicKey(account),
                                        AccountSign(account, digest_hash))
        tx1 == AttachSigns(tx0, signature_info, account)
        tx2 == [tx1 EXCEPT !.txid = MakeTransactionId(tx1)]
    IN IF ~IsOk(outs) THEN outs
       ELSE IF ~IsOk(am) THEN am
       ELSE IF ~IsOk(fm) THEN fm
       ELSE IF ~IsOk(sel) THEN sel
       ELSE IF fail_at = "real_nonce" THEN Err("NonceError")
       ELSE IF fail_at = "real_sign" THEN Err("SignError")
       ELSE Ok([tx |-> tx2, signed_over |-> tx0,
                utxo_output |-> utxo_output])

\* the endorser signature pushed without setting the txid again
FinalizeTx_StaleId(tx, end_sign) ==
    [tx EXCEPT !.auth_require_signs = Append(tx.auth_require_signs, end_sign)]

\* Session::gen_complete_tx_and_post: push the endorser signature, then
\* set the txid again
FinalizeTx(tx, end_sign) ==
    LET t1 == [tx EXCEPT
                 !.auth_require_signs = Append(tx.auth_require_signs, end_sign)]
    IN [t1 EXCEPT !.txid = MakeTransactionId(t1)]

\* ------------------------------------------------------------------------
\* transfer, before the first network call
\* ------------------------------------------------------------------------

\* "config.compliance_check.compliance_check_endorse_service_fee as i64"
EndorserFee(cfg) == Wrap(cfg.fee)

\* "amount + fee + endorser_fee" on i64: a build with overflow checks
\* panics when an addition overflows, a build without them wraps
AddI64(a, b, overflow_checks) ==
    IF overflow_checks /\ ~InRange(a + b)
    THEN Panic("attempt to add with overflow")
    ELSE Ok(Wrap(a + b))

\* transfer, up to the wrap-around check
Preflight(amount_s, fee_s, cfg, overflow_checks) ==
    LET amount == StrAsI64(amount_s)
        fee == StrAsI64(fee_s)
        endorser_fee == EndorserFee(cfg)
        s1 == AddI64(amount.val, fee.val, overflow_checks)
        total_amount == AddI64(s1.val, endorser_fee, overflow_checks)
    IN IF ~IsOk(amount) THEN amount
       ELSE IF ~IsOk(fee) THEN fee
       ELSE IF endorser_fee > amount.val THEN Err("InvalidArguments")
       ELSE IF ~IsOk(s1) THEN s1
       ELSE IF ~IsOk(total_amount) THEN total_amount
       ELSE IF total_amount.val < amount.val THEN Err("InvalidArguments")
       ELSE Ok([amount |-> amount.val, fee |-> fee.val,
                total_amount |-> total_amount.val])

\* ------------------------------------------------------------------------
\* Inputs
\* ------------------------------------------------------------------------
AmountStrings ==
    { <<"1", "4", "0", "1">>, <<"1", "0", "0">>, <<"0">>,
      ToStr(MaxInt), <<"x">>, <<"-", "1">> }
FeeStrings == { <<"0">>, <<"1">>, <<"-", "1">> }
ToAddrs == { "", "bob" }
ConfigFees == { 0, 100, 1500 }
ConfigFeeAddrs == { "", "feeaddr", "alice" }
ContractNames == { "", "XC1111111111000000@xuper" }
Statuses == { 200, 400, 401 }
TotalStrings ==
    { <<"2", "0", "0", "0">>, <<"1", "5", "0", "1">>, <<"0">>, <<"x">> }
LocalFailures == { "none", "cc_nonce", "cc_sign", "real_nonce", "real_sign" }

Utxo(txid, offset, addr, amount) ==
    [amount |-> ToBytesBE(amount), toAddr |-> addr,
     refTxid |-> txid, refOffset |-> offset]
UtxoLists ==
    { <<Utxo("t0", 0, "alice", 2000)>>,
      <<Utxo("t1", 1, "alice", 1000), Utxo("t2", 0, "alice", 501)>> }

RECURSIVE SeqsUpTo(_, _)
SeqsUpTo(S, n) ==
    IF n = 0 THEN { <<>> }
    ELSE LET shorter == SeqsUpTo(S, n - 1)
         IN shorter \cup { Append(q, x) : q \in shorter, x \in S }

ResponseLists ==
    SeqsUpTo({ [status |-> st] : st \in Statuses }, MaxResponses)

EndorserSign == SignatureInfo([pubkey_of |-> "endorser"],
                              [signer |-> "endorser", over |-> "request"])

\* ------------------------------------------------------------------------
\* State
\* ------------------------------------------------------------------------
VARIABLES
    pc,               \* where transfer stands
    args,             \* to, amount, fee, desc as passed to transfer
    cfg,              \* config::CONFIG.compliance_check
    account,          \* wallet::Account
    overflow_checks,  \* whether the build checks integer overflow
    msg,              \* session::Message
    pre_req,          \* PreExecWithSelectUTXORequest sent
    pre_resp,         \* PreExecWithSelectUTXOResponse received
    cctx,             \* the compliance-check (fee) transaction
    tx,               \* the real transaction
    signed_over,      \* the transactions as passed to make_tx_digest_hash
    endorse_req,      \* EndorserRequest "ComplianceCheck" sent
    posted,           \* transaction passed to ocall_xchain_post_tx
    result,           \* what transfer returned
    log,              \* stages run so far, in order
    fn                \* last direct call of a Session function

vars == <<pc, args, cfg, account, overflow_checks, msg, pre_req, pre_resp,
          cctx, tx, signed_over, endorse_req, posted, result, log, fn>>

pipeline == <<pc, args, cfg, account, overflow_checks, msg, pre_req,
              pre_resp, cctx, tx, signed_over, endorse_req, posted, result,
              log>>

Init ==
    /\ pc = "start"
    /\ args \in [to : ToAddrs, amount : AmountStrings, fee : FeeStrings,
                 desc : {"test"}]
    /\ cfg \in [fee : ConfigFees, fee_addr : ConfigFeeAddrs,
                endorse_addr : {"endorser"}]
    /\ account \in [address : {"alice"}, contract_name : ContractNames]
    /\ overflow_checks \in BOOLEAN
    /\ msg = Null
    /\ pre_req = Null
    /\ pre_resp = Null
    /\ cctx = Null
    /\ tx = Null
    /\ signed_over = [cctx |-> Null, tx |-> Null]
    /\ endorse_req = Null
    /\ posted = Null
    /\ result = Null
    /\ log = <<>>
    /\ fn = Null

\* transfer returns r
Return(r) ==
    /\ pc' = "done"
    /\ result' = r

\* transfer, from its entry to the pre-execution call
TransferBegin ==
    /\ pc = "start"
    /\ LET pf == Preflight(args.amount, args.fee, cfg, overflow_checks)
           auth_requires == <<cfg.endorse_addr>>
       IN IF ~IsOk(pf)
          THEN /\ Return(pf)
               /\ UNCHANGED <<msg, pre_req, log>>
          ELSE /\ pre_req' =
                     [bcname |-> "xuper", address |-> account.address,
                      totalAmount |-> pf.val.total_amount,
                      request |-> [bcname |-> "xuper", requests |-> <<>>,
                                   initiator |-> account.address,
                                   auth_require |-> auth_requires]]
               /\ msg' = [to |-> args.to, fee |-> ToStr(pf.val.fee),
                          desc |-> args.desc, auth_require |-> auth_requires,
                          amount |-> args.amount, frozen_height |-> 0,
                          initiator |-> account.address]
               /\ log' = <<"pre_exec">>
               /\ pc' = "pre_exec"
               /\ UNCHANGED result
    /\ UNCHANGED <<args, cfg, account, overflow_checks, pre_resp, cctx, tx,
                   signed_over, endorse_req, posted, fn>>

\* the pre-execution call fails in the gateway or in (de)serialization
PreExecFails ==
    /\ pc = "pre_exec"
    /\ Return(Err("GatewayError"))
    /\ UNCHANGED <<args, cfg, account, overflow_checks, msg, pre_req,
                   pre_resp, cctx, tx, signed_over, endorse_req, posted,
                   log, fn>>

\* the pre-execution call returns resp: check_resp_code, then
\* gen_complete_tx_and_post up to the endorsement call
PreExecReturns(resp, fail_at) ==
    /\ pc = "pre_exec"
    /\ pre_resp' = resp
    /\ LET chk == CheckRespCode(resp.response.responses)
           cc == GenComplianceCheckTx(account, msg, cfg, resp, fail_at)
           rt == GenRealTx(account, msg, resp, cc.val.tx, fail_at)
       IN IF ~IsOk(chk)
          THEN /\ Return(chk)
               /\ log' = log \o <<"validate">>
               /\ UNCHANGED <<cctx, tx, signed_over, endorse_req>>
          ELSE IF ~IsOk(cc)
          THEN /\ Return(cc)
               /\ log' = log \o <<"validate", "fee_tx">>
               /\ UNCHANGED <<cctx, tx, signed_over, endorse_req>>
          ELSE IF ~IsOk(rt)
          THEN /\ Return(rt)
               /\ log' = log \o <<"validate", "fee_tx", "real_tx">>
               /\ cctx' = cc.val.tx
               /\ signed_over' = [signed_over EXCEPT
                                    !.cctx = cc.val.signed_over]
               /\ UNCHANGED <<tx, endorse_req>>
          ELSE /\ log' = log \o <<"validate", "fee_tx", "real_tx", "endorse">>
               /\ cctx' = cc.val.tx
               /\ tx' = rt.val.tx
               /\ signed_over' = [cctx |-> cc.val.signed_over,
                                  tx |-> rt.val.signed_over]
               /\ endorse_req' =
                     [RequestName |-> "ComplianceCheck", BcName |-> "xuper",
                      Fee |-> cc.val.tx,
                      RequestData |-> [bcname |-> "xuper", tx |-> rt.val.tx]]
               /\ pc' = "endorse"
               /\ UNCHANGED result
    /\ UNCHANGED <<args, cfg, account, overflow_checks, msg, pre_req,
                   posted, fn>>

\* the endorsement failure returned only after the transaction was posted
EndorseFails_Posts ==
    /\ pc = "endorse"
    /\ Return(Err("GatewayError"))
    /\ posted' = tx
    /\ log' = log \o <<"append_sig", "recompute_id", "broadcast">>
    /\ UNCHANGED <<args, cfg, account, overflow_checks, msg, pre_req,
                   pre_resp, cctx, tx, signed_over, endorse_req, fn>>

\* the endorsement call fails in the gateway
EndorseFails ==
    /\ pc = "endorse"
    /\ Return(Err("GatewayError"))
    /\ UNCHANGED <<args, cfg, account, overflow_checks, msg, pre_req,
                   pre_resp, cctx, tx, signed_over, endorse_req, posted,
                   log, fn>>

\* the endorsement response carries no signature: unwrap() panics
EndorseReturnsNone ==
    /\ pc = "endorse"
    /\ Return(Panic("called Option::unwrap() on a None value"))
    /\ UNCHANGED <<args, cfg, account, overflow_checks, msg, pre_req,
                   pre_resp, cctx, tx, signed_over, endorse_req, posted,
                   log, fn>>

\* the endorsement call returns a signature: push it, set the txid again,
\* post the transaction
EndorseReturns ==
    /\ pc = "endorse"
    /\ tx' = FinalizeTx(tx, EndorserSign)
    /\ posted' = tx'
    /\ log' = log \o <<"append_sig", "recompute_id", "broadcast">>
    /\ pc' = "broadcast"
    /\ UNCHANGED <<args, cfg, account, overflow_checks, msg, pre_req,
                   pre_resp, cctx, signed_over, endorse_req, result, fn>>

\* ocall_xchain_post_tx fails
PostFails ==
    /\ pc = "broadcast"
    /\ Return(Err("GatewayError"))
    /\ UNCHANGED <<args, cfg, account, overflow_checks, msg, pre_req,
                   pre_resp, cctx, tx, signed_over, endorse_req, posted,
                   log, fn>>

\* ocall_xchain_post_tx succeeds: transfer returns the hex txid
PostReturns ==
    /\ pc = "broadcast"
    /\ Return(Ok(HexEncode(tx.txid)))
    /\ UNCHANGED <<args, cfg, account, overflow_checks, msg, pre_req,
                   pre_resp, cctx, tx, signed_over, endorse_req, posted,
                   log, fn>>

PreExecResponses ==
    [response : [responses : ResponseLists, inputs : {<<>>},
                 outputs : {<<>>}, requests : {<<>>}],
     utxoOutput : [utxoList : UtxoLists, totalSelected : TotalStrings]]

Next ==
    \/ TransferBegin
    \/ PreExecFails
    \/ \E resp \in PreExecResponses, fail_at \in LocalFailures :
          PreExecReturns(resp, fail_at)
    \/ EndorseFails
    \/ EndorseReturnsNone
    \/ EndorseReturns
    \/ PostFails
    \/ PostReturns

Spec == Init /\ [][Next]_vars

\* ------------------------------------------------------------------------
\* Direct calls of the Session functions
\* ------------------------------------------------------------------------
FnAccounts == [address : {"alice", "carol"}, contract_name : ContractNames]
FnAddrs == { "", "bob" }
FnAmounts == { <<"5">>, <<"3", "0", "0">>, <<"x">> }
FnFees == { <<>>, <<"0">>, <<"0", "0">>, <<"7">>, <<"x">> }
FnTotals == { <<"0">>, <<"5">>, <<"3", "0", "0">>, <<"x">> }
FnNeeds == { 0, 5, 299, 300, 301 }
FnUtxos == { Utxo("t0", 0, "alice", 5), Utxo("t1", 3, "carol", 300) }
FnOutputs ==
    [to_addr : {"alice", "carol", "$"},
     amount : { ToBytesBE(0), ToBytesBE(5), ToBytesBE(300) }]

\* a fee transaction with the given outputs, as gen_compliance_check_tx
\* leaves it
FnCctx(outs) ==
    LET t == [TransactionNew EXCEPT
                !.desc = "compliance check tx", !.version = TXVersion,
                !.timestamp = 1, !.tx_outputs = outs, !.nonce = 1]
    IN [t EXCEPT !.txid = MakeTransactionId(t)]

FnResp ==
    [response |-> [responses |-> <<>>, inputs |-> <<>>, outputs |-> <<>>,
                   requests |-> <<>>],
     utxoOutput |-> [utxoList |-> <<>>, totalSelected |-> <<"0">>]]

InitFn ==
    /\ pc = "idle"
    /\ args = Null
    /\ cfg = Null
    /\ account = Null
    /\ overflow_checks = FALSE
    /\ msg = Null
    /\ pre_req = Null
    /\ pre_resp = Null
    /\ cctx = Null
    /\ tx = Null
    /\ signed_over = [cctx |-> Null, tx |-> Null]
    /\ endorse_req = Null
    /\ posted = Null
    /\ result = Null
    /\ log = <<>>
    /\ fn = Null

CallGenerateTxOutput ==
    /\ fn = Null
    /\ \E to \in FnAddrs, amount \in FnAmounts, fee \in FnFees :
          fn' = [op |-> "generate_tx_output",
                 in |-> [to |-> to, amount |-> amount, fee |-> fee],
                 out |-> GenerateTxOutput(to, amount, fee)]
    /\ UNCHANGED pipeline

CallGenerateTxInput ==
    /\ fn = Null
    /\ \E a \in FnAccounts, list \in SeqsUpTo(FnUtxos, MaxFnOutputs),
          total \in FnTotals, need \in FnNeeds :
          LET pool == [utxoList |-> list, totalSelected |-> total]
          IN fn' = [op |-> "generate_tx_input",
                    in |-> [account |-> a, utxo_output |-> pool,
                            total_need |-> need],
                    out |-> GenerateTxInput(a, pool, need)]
    /\ UNCHANGED pipeline

CallGenRealTx ==
    /\ fn = Null
    /\ \E a \in FnAccounts, to \in FnAddrs, amount \in FnAmounts,
          fee \in FnFees, initiator \in {"alice", "carol"},
          outs \in SeqsUpTo(FnOutputs, MaxFnOutputs) :
          LET m == [to |-> to, fee |-> fee, desc |-> "",
                    auth_require |-> <<"endorser">>, amount |-> amount,
                    frozen_height |-> 0, initiator |-> initiator]
              c == FnCctx(outs)
          IN fn' = [op |-> "gen_real_tx",
                    in |-> [account |-> a, msg |-> m, cctx |-> c],
                    out |-> GenRealTx(a, m, FnResp, c, "none")]
    /\ UNCHANGED pipeline

NextFn ==
    \/ CallGenerateTxOutput
    \/ CallGenerateTxInput
    \/ CallGenRealTx

SpecFn == InitFn /\ [][NextFn]_vars

\* ------------------------------------------------------------------------
\* Properties of transfer
\* ------------------------------------------------------------------------
ArgsParsed == args # Null /\ IsOk(StrAsI64(args.amount))
                          /\ IsOk(StrAsI64(args.fee))
AmountOf == StrAsI64(args.amount).val
FeeOf == StrAsI64(args.fee).val
ServiceStages == { "pre_exec", "endorse", "broadcast" }
NoServiceCalled ==
    /\ \A i \in 1..Len(log) : log[i] \notin ServiceStages
    /\ pre_req = Null /\ endorse_req = Null /\ posted = Null
Started == pc \notin { "start", "idle" }

\* C1: whenever the configured endorsement fee is not strictly less than
\* the amount (fee >= amount, equality included), transfer fails with
\* InvalidArguments and no service has been called.
C1_FeeNotBelowAmountRejected ==
    (Started /\ ArgsParsed /\ EndorserFee(cfg) >= AmountOf)
        => (result = Err("InvalidArguments") /\ NoServiceCalled)

\* what the code does: only a fee strictly above the amount is rejected
C1_FeeAboveAmountRejected ==
    (Started /\ ArgsParsed /\ EndorserFee(cfg) > AmountOf)
        => (result = Err("InvalidArguments") /\ NoServiceCalled)

C1_EqualFeeAccepted ==
    Started /\ ArgsParsed /\ EndorserFee(cfg) = AmountOf /\ pre_req # Null

\* the mathematical sum leaves the i64 range at one of the two additions
SumWraps ==
    \/ ~InRange(AmountOf + FeeOf)
    \/ ~InRange(Wrap(AmountOf + FeeOf) + EndorserFee(cfg))

\* C2: whenever amount + fee + endorsement_fee wraps past the i64
\* boundary, transfer fails with InvalidArguments and the pre-execution
\* request is never sent.
C2_WrapRejected ==
    (Started /\ ArgsParsed /\ SumWraps)
        => (result = Err("InvalidArguments") /\ pre_req = Null)

\* what the code does in a build without overflow checks
C2_WrapRejectedWhenWrapping ==
    (Started /\ ArgsParsed /\ SumWraps /\ ~overflow_checks)
        => (result = Err("InvalidArguments") /\ pre_req = Null)

C2_WrapPanics ==
    Started /\ ArgsParsed /\ SumWraps /\ overflow_checks
            /\ result.kind = "Panic"

OutIs(o, addr, n) == o.to_addr = addr /\ FromBytesBE(o.amount) = n
PoolTotal == StrAsBigint(pre_resp.utxoOutput.totalSelected)
PoolCovers ==
    /\ pre_resp # Null /\ ArgsParsed /\ IsOk(PoolTotal)
    /\ PoolTotal.val >= AmountOf + FeeOf + EndorserFee(cfg)
FeeChange == PoolTotal.val - EndorserFee(cfg)
RealChange == FeeChange - AmountOf - FeeOf

\* the fee transaction spends every unit of the pool
SpendsPool(t) ==
    LET list == pre_resp.utxoOutput.utxoList
    IN /\ Len(t.tx_inputs) = Len(list)
       /\ \A i \in 1..Len(list) :
            /\ t.tx_inputs[i].ref_txid = list[i].refTxid
            /\ t.tx_inputs[i].ref_offset = list[i].refOffset
            /\ t.tx_inputs[i].from_addr = list[i].toAddr
            /\ t.tx_inputs[i].amount = list[i].amount

FeeTxChain ==
    /\ SpendsPool(cctx)
    /\ Len(cctx.tx_outputs) = 2
    /\ OutIs(cctx.tx_outputs[1], cfg.fee_addr, EndorserFee(cfg))
    /\ OutIs(cctx.tx_outputs[2], account.address, FeeChange)

RealTxChain ==
    /\ Len(tx.tx_inputs) = 1
    /\ tx.tx_inputs[1].ref_txid = cctx.txid
    /\ tx.tx_inputs[1].ref_offset = 1
    /\ tx.tx_inputs[1].from_addr = account.address
    /\ FromBytesBE(tx.tx_inputs[1].amount) = FeeChange
    /\ tx.tx_inputs[1].amount = cctx.tx_outputs[2].amount
    /\ Len(tx.tx_outputs) >= 1
    /\ OutIs(tx.tx_outputs[1], args.to, AmountOf)
    /\ IF RealChange = 0
       THEN \A i \in 1..Len(tx.tx_outputs) :
               tx.tx_outputs[i].to_addr # account.address
       ELSE /\ OutIs(tx.tx_outputs[Len(tx.tx_outputs)], account.address,
                     RealChange)
            /\ Len(tx.tx_outputs) = (IF FeeOf = 0 THEN 2 ELSE 3)
    /\ FeeOf # 0 => OutIs(tx.tx_outputs[2], "$", FeeOf)

\* C3 as stated: for every pool of total T >= amount + fee + endorsement
\* fee, the fee transaction spends the pool, pays the endorsement fee to
\* the fee recipient and returns T - endorsement fee to the initiator; the
\* real transaction spends exactly that change output, pays the amount to
\* the destination and returns T - endorsement fee - amount - fee.
C3_ValueChainAlways ==
    PoolCovers => /\ cctx # Null => FeeTxChain
                  /\ tx # Null => RealTxChain

\* C3 amended: the same value chain, for a non-empty destination, a
\* non-empty fee recipient that is not the initiator, and T above the
\* endorsement fee.
C3_ValueChain ==
    (/\ PoolCovers
     /\ args.to # ""
     /\ cfg.fee_addr \notin { "", account.address }
     /\ PoolTotal.val > EndorserFee(cfg))
        => /\ cctx # Null => FeeTxChain
           /\ tx # Null => RealTxChain

\* T = 2000, amount = 1401, fee = 0, endorsement fee = 100: changes 1900
\* and 499
C3_Scenario ==
    /\ pc = "done" /\ result.kind = "Ok"
    /\ args.to = "bob" /\ cfg.fee_addr = "feeaddr"
    /\ AmountOf = 1401 /\ FeeOf = 0 /\ EndorserFee(cfg) = 100
    /\ PoolTotal.val = 2000
    /\ OutIs(cctx.tx_outputs[2], "alice", 1900)
    /\ posted.tx_inputs[1].ref_txid = cctx.txid
    /\ OutIs(posted.tx_outputs[1], "bob", 1401)
    /\ OutIs(posted.tx_outputs[2], "alice", 499)

HasValidId(t) == t.txid = MakeTransactionId(t)
NoSigns(t) == t.initiator_signs = <<>> /\ t.auth_require_signs = <<>>
SignedDigestOf(t, unsigned) ==
    /\ NoSigns(unsigned)
    /\ Len(t.initiator_signs) = 1
    /\ t.initiator_signs[1].Sign.over = MakeTxDigestHash(unsigned)
    /\ MakeTxDigestHash(unsigned) = MakeTxDigestHash(t)
InList(x, q) == \E i \in 1..Len(q) : q[i] = x

\* C4: every transaction handed out of a builder, sent to the endorsement
\* service or broadcast carries the identifier of its current content,
\* signatures included; the broadcast transaction holds the endorsement
\* signature, and transfer returns the hex of its identifier; the digest
\* the account signs is taken while both signature lists are empty.
C4_IdentifierInvariant ==
    /\ cctx # Null => HasValidId(cctx) /\ SignedDigestOf(cctx, signed_over.cctx)
    /\ tx # Null => HasValidId(tx) /\ SignedDigestOf(tx, signed_over.tx)
    /\ endorse_req # Null =>
          /\ HasValidId(endorse_req.Fee)
          /\ HasValidId(endorse_req.RequestData.tx)
    /\ posted # Null =>
          /\ HasValidId(posted)
          /\ InList(EndorserSign, posted.auth_require_signs)
          /\ posted.txid # endorse_req.RequestData.tx.txid
    /\ (result # Null /\ result.kind = "Ok") =>
          result.val = HexEncode(MakeTransactionId(posted))

C4_Witness ==
    /\ pc = "done" /\ result.kind = "Ok" /\ posted # Null
    /\ InList(EndorserSign, posted.auth_require_signs)

StageOrder ==
    << "pre_exec", "validate", "fee_tx", "real_tx", "endorse",
       "append_sig", "recompute_id", "broadcast" >>
IsPrefix(p, q) == Len(p) <= Len(q) /\ \A i \in 1..Len(p) : p[i] = q[i]
Ran(stage) == InList(stage, log)
Failed == result # Null /\ result.kind \in { "Err", "Panic" }

\* C5: the stages run in the fixed order, each service is called at most
\* once, a stage runs only when every earlier stage succeeded, nothing is
\* broadcast after a failure, and an identifier is returned only after a
\* successful broadcast.
C5_StageOrder ==
    /\ IsPrefix(log, StageOrder)
    /\ Ran("pre_exec") <=> pre_req # Null
    /\ Ran("validate") <=> pre_resp # Null
    /\ Ran("fee_tx") =>
          \A i \in 1..Len(pre_resp.response.responses) :
             pre_resp.response.responses[i].status <= 400
    /\ Ran("real_tx") <=> cctx # Null
    /\ Ran("endorse") <=> (tx # Null /\ endorse_req # Null)
    /\ Ran("broadcast") <=> posted # Null
    /\ Ran("broadcast") => InList(EndorserSign, posted.auth_require_signs)
    /\ (Failed /\ Ran("broadcast")) => result = Err("GatewayError")
    /\ Failed => pc = "done"
    /\ (result # Null /\ result.kind = "Ok") =>
          (log = StageOrder /\ pc = "done")

C5_Witness ==
    /\ Failed /\ Ran("endorse") /\ ~Ran("broadcast") /\ posted = Null

ResponsesOf(r) == r.response.responses
AnyAbove400 ==
    \E i \in 1..Len(ResponsesOf(pre_resp)) : ResponsesOf(pre_resp)[i].status > 400

\* C6: a pre-execution response with a status above 400 makes transfer
\* fail with ContractCodeGT400 before any transaction is built, endorsed
\* or broadcast; with every status at most 400 (400 itself and the empty
\* list included) validation passes and the fee transaction build starts.
C6_RespCodeValidation ==
    pre_resp # Null =>
       IF AnyAbove400
       THEN /\ result = Err("ContractCodeGT400")
            /\ cctx = Null /\ tx = Null
            /\ endorse_req = Null /\ posted = Null
            /\ log = << "pre_exec", "validate" >>
       ELSE /\ result # Err("ContractCodeGT400")
            /\ Len(log) >= 3 /\ log[3] = "fee_tx"

C6_Witness ==
    /\ pre_resp # Null
    /\ Len(ResponsesOf(pre_resp)) = 1 /\ ResponsesOf(pre_resp)[1].status = 400
    /\ cctx # Null /\ tx # Null /\ endorse_req # Null

\* C7: at broadcast the fee transaction carries one initiator signature
\* and no auth-required signature; the real transaction carries one
\* initiator signature and its auth-required list ends with the
\* endorsement signature: that one alone for an account without contract
\* name, the initiator's signature then the endorsement signature for a
\* contract-backed account.
C7_SignatureComposition ==
    posted # Null =>
       LET own == SignatureInfo(AccountPublicKey(account),
                     AccountSign(account, MakeTxDigestHash(posted)))
           feeown == SignatureInfo(AccountPublicKey(account),
                     AccountSign(account, MakeTxDigestHash(cctx)))
       IN /\ cctx.initiator_signs = << feeown >>
          /\ cctx.auth_require_signs = <<>>
          /\ endorse_req.Fee = cctx
          /\ posted.initiator_signs = << own >>
          /\ posted.auth_require_signs =
                (IF account.contract_name = "" THEN << EndorserSign >>
                 ELSE << own, EndorserSign >>)

C7_Witness ==
    /\ posted # Null /\ account.contract_name # ""
    /\ Len(posted.auth_require_signs) = 2

\* ------------------------------------------------------------------------
\* Properties of the Session functions
\* ------------------------------------------------------------------------
FnIs(op) == fn # Null /\ fn.op = op
FnOk(op) == FnIs(op) /\ fn.out.kind = "Ok"

RECURSIVE SumAmounts(_, _)
SumAmounts(outs, idxs) ==
    IF idxs = {} THEN 0
    ELSE LET k == CHOOSE k \in idxs : TRUE
         IN FromBytesBE(outs[k].amount) + SumAmounts(outs, idxs \ {k})

\* C8: generate_tx_input returns one input per spend unit, in pool order;
\* a declared total strictly above the required total yields one change
\* output of total - required to the account's own address, a total equal
\* to or below it yields none, and gen_real_tx adds a change output to
\* the transaction in the first case only.
C8_InputSelector ==
    /\ FnOk("generate_tx_input") =>
          LET list == fn.in.utxo_output.utxoList
              total == ParseNat(fn.in.utxo_output.totalSelected)
              need == fn.in.total_need
              ins == fn.out.val.tx_inputs
              to == fn.out.val.to
          IN /\ Len(ins) = Len(list)
             /\ \A i \in 1..Len(list) :
                   /\ ins[i].ref_txid = list[i].refTxid
                   /\ ins[i].ref_offset = list[i].refOffset
                   /\ ins[i].from_addr = list[i].toAddr
                   /\ ins[i].amount = list[i].amount
             /\ total > need => OutIs(to, fn.in.account.address, total - need)
             /\ total <= need => to.to_addr = ""
    /\ FnOk("gen_real_tx") =>
          LET pool == fn.out.val.utxo_output
              total == ParseNat(pool.totalSelected)
              need == ParseNat(fn.in.msg.amount) + ParseNat(fn.in.msg.fee)
              outs == fn.out.val.tx.tx_outputs
              base == (IF fn.in.msg.to # "" THEN 1 ELSE 0)
                      + (IF fn.in.msg.fee \notin { <<>>, <<"0">> }
                         THEN 1 ELSE 0)
          IN /\ Len(fn.out.val.tx.tx_inputs) = Len(pool.utxoList)
             /\ Len(outs) = base + (IF total > need THEN 1 ELSE 0)
             /\ total > need =>
                   OutIs(outs[Len(outs)], fn.in.account.address, total - need)

C8_Witness ==
    /\ FnOk("generate_tx_input")
    /\ Len(fn.in.utxo_output.utxoList) = 2
    /\ ParseNat(fn.in.utxo_output.totalSelected) = 300
    /\ fn.in.total_need = 299
    /\ OutIs(fn.out.val.to, fn.in.account.address, 1)

\* C9: the synthetic pool gen_real_tx derives from the fee transaction
\* holds exactly the outputs addressed to the initiator, in increasing
\* output-index order, each referencing the fee transaction's txid and
\* the output's true index, and its declared total is the sum of their
\* amounts.
C9_SyntheticPool ==
    FnOk("gen_real_tx") =>
       LET c == fn.in.cctx
           pool == fn.out.val.utxo_output
           units == pool.utxoList
           mine == { k \in 1..Len(c.tx_outputs) :
                        c.tx_outputs[k].to_addr = fn.in.msg.initiator }
       IN /\ Len(units) = Cardinality(mine)
          /\ \A j \in 1..Len(units) :
                /\ units[j].refOffset + 1 \in mine
                /\ units[j].refTxid = c.txid
                /\ units[j].toAddr = fn.in.msg.initiator
                /\ units[j].amount = c.tx_outputs[units[j].refOffset + 1].amount
          /\ \A i, j \in 1..Len(units) :
                i < j => units[i].refOffset < units[j].refOffset
          /\ StrAsBigint(pool.totalSelected) = Ok(SumAmounts(c.tx_outputs, mine))

C9_Witness ==
    /\ FnOk("gen_real_tx")
    /\ Len(fn.in.cctx.tx_outputs) = 2
    /\ fn.in.cctx.tx_outputs[1].to_addr # fn.in.msg.initiator
    /\ Len(fn.out.val.utxo_output.utxoList) = 1
    /\ fn.out.val.utxo_output.utxoList[1].refOffset = 1
    /\ ParseNat(fn.out.val.utxo_output.totalSelected) = 300

\* C10: generate_tx_output produces no destination output for an empty
\* destination, no fee output for a fee that is empty or "0", and for a
\* non-empty destination with a fee that is neither, exactly the
\* destination output followed by the fee output to "$"; it fails only on
\* an amount or fee it has to parse and cannot.
C10_OutputBuilder ==
    FnIs("generate_tx_output") =>
       LET to == fn.in.to
           amount == fn.in.amount
           fee == fn.in.fee
           has_fee == fee # <<>> /\ fee # <<"0">>
           bad == \/ (to # "" /\ ~AllDigits(amount))
                  \/ (has_fee /\ ~AllDigits(fee))
           outs == fn.out.val
       IN /\ fn.out.kind = "Err" <=> bad
          /\ fn.out.kind = "Err" => fn.out.err = "ParseError"
          /\ fn.out.kind = "Ok" =>
                /\ (to = "" /\ ~has_fee) => outs = <<>>
                /\ (to = "" /\ has_fee) =>
                      (Len(outs) = 1 /\ OutIs(outs[1], "$", ParseNat(fee)))
                /\ (to # "" /\ ~has_fee) =>
                      (Len(outs) = 1 /\ OutIs(outs[1], to, ParseNat(amount)))
                /\ (to # "" /\ has_fee) =>
                      /\ Len(outs) = 2
                      /\ OutIs(outs[1], to, ParseNat(amount))
                      /\ OutIs(outs[2], "$", ParseNat(fee))

C10_Witness ==
    /\ FnOk("generate_tx_output")
    /\ fn.in.to = "bob" /\ fn.in.fee = <<"7">>
    /\ fn.out.val = << [to_addr |-> "bob", amount |-> <<1, 44>>],
                       [to_addr |-> "$", amount |-> <<7>>] >>

====
